---- MODULE Spec2Model ----
(***************************************************************************)
(* A model of pev's structured-output engine (src/output.c) and of its CSV *)
(* plugin (src/plugins/csv.c): the format registry, the active format, the *)
(* document flag and the scope stack, with one action per API function.    *)
(*                                                                         *)
(* Build assumptions written into the model:                               *)
(*  - assert() is live (the sources never define NDEBUG), so a failed      *)
(*    assertion ends the process through abort();                          *)
(*  - stack.h is not part of the sources at hand; the scope stack is the   *)
(*    "ordered sequence of scope names" of the design, whose pop fails on  *)
(*    the empty stack;                                                     *)
(*  - abort() ends the process: no API call happens after it.              *)
(***************************************************************************)
EXTENDS Integers, Sequences, FiniteSets, TLC

\* ------------------------------------------------------------------ bounds
\* Deepest scope nesting the callers of the model reach.
MaxDepth == 2
\* Largest number of registry entries the callers of the model create.
MaxReg == 2
\* Longest trace of document events the callers of the model produce.
MaxDocEvents == 3
\* Longest string given to escape_csv.
MaxStrLen == 3
\* Most API calls made while the printed bytes are recorded.
MaxCalls == 5
\* Most strings in the array given to str_array_join, and their greatest length.
MaxCount == 3
MaxWordLen == 1
\* Greatest size of the buffer given to output_available_formats.
MaxBuf == 12

\* --------------------------------------------------------------- constants
\* The null pointer, for format descriptors.
NULL == 0
\* The null pointer, for strings (const char *).
NULLSTR == "NULL"
FORMAT_ID_FOR_TEXT == 3
\* uint16_t arithmetic of the nesting level.
UINT16_MOD == 65536

\* Format descriptors a caller may hold, by address. Descriptor 1 is the CSV
\* plugin's g_format; 2 is a text format with FORMAT_ID_FOR_TEXT; 3 is a
\* descriptor that shares its id with 1 and its name with 2 (nothing in the
\* registry API prevents a plugin from registering it).
Formats == {1, 2, 3}

FormatId(f) == CASE f = 1 -> 1
                 [] f = 2 -> FORMAT_ID_FOR_TEXT
                 [] f = 3 -> 1

FormatName(f) == CASE f = 1 -> "csv"
                   [] f = 2 -> "text"
                   [] f = 3 -> "text"

\* Names a caller may ask for: registered ones, one in the wrong case and one
\* that no descriptor has.
FormatNameArgs == {"csv", "text", "CSV", "xml"}
ScopeNames == {NULLSTR, "Header", "Sub"}
DocNames == {NULLSTR, "doc"}
Keys == {NULLSTR, "Magic"}
Values == {NULLSTR, "MZ"}

\* ------------------------------------------------------------------- state
VARIABLES
  g_is_document_open,    \* output.c:36
  g_format,              \* output.c:37, NULL or a descriptor
  g_scope_stack,         \* output.c:38, bottom first
  g_registered_formats,  \* output.c:48, head of the SLIST first
  phase,                 \* "start" (before output_init), "running", "terminated",
                         \* "crashed" (ended by an invalid memory access)
  fatals,                \* number of abort() calls made
  emitted,               \* the render events the last call dispatched
  doc_trace,             \* history: the document events dispatched so far
  h_unclosed,            \* history: open_scope calls that returned, minus close_scope calls that returned
  last,                  \* the last API call: name, arguments, return value
  capture,               \* whether the calls made and the bytes printed are recorded
  calls,                 \* history, when capture: the API calls made, in order
  stdout,                \* history, when capture: the bytes printf() wrote
  pure                   \* the call of a function of its arguments alone: inputs and result

vars == <<g_is_document_open, g_format, g_scope_stack, g_registered_formats,
          phase, fatals, emitted, doc_trace, h_unclosed, last,
          capture, calls, stdout, pure>>

\* ------------------------------------------------------------ scope stack
STACK_ALLOC(n) == <<>>

STACK_COUNT(stack) == Len(stack)

\* ok: whether room for the element was found.
STACK_PUSH(stack, element, ok) ==
  IF ok THEN [ret |-> 0, stack |-> Append(stack, element)]
        ELSE [ret |-> -1, stack |-> stack]

STACK_POP(stack) ==
  IF Len(stack) = 0
    THEN [ret |-> -1, element |-> NULLSTR, stack |-> stack]
    ELSE [ret |-> 0, element |-> stack[Len(stack)],
          stack |-> SubSeq(stack, 1, Len(stack) - 1)]

\* ---------------------------------------------------------------- registry
RECURSIVE output_lookup_format_entry_by_id(_, _, _)
\* The index of the first entry from position i on whose format has this id;
\* 0 for none.
output_lookup_format_entry_by_id(reg, id, i) ==
  IF i > Len(reg) THEN 0
  ELSE IF FormatId(reg[i]) = id THEN i
  ELSE output_lookup_format_entry_by_id(reg, id, i + 1)

output_lookup_format_by_id(reg, id) ==
  LET entry == output_lookup_format_entry_by_id(reg, id, 1)
  IN IF entry = 0 THEN NULL ELSE reg[entry]

SLIST_INSERT_HEAD(reg, f) == <<f>> \o reg

SLIST_REMOVE(reg, entry) ==
  SubSeq(reg, 1, entry - 1) \o SubSeq(reg, entry + 1, Len(reg))

\* ------------------------------------------------------------- C strings
\* A C string is the sequence of its characters, each a one-character
\* string; the null pointer (char *) is NULLCHARS, which is no such sequence.
NULLCHARS == <<NULLSTR>>

\* The characters of the names, keys and values the callers of the model use.
CStr(name) ==
  CASE name = "csv"    -> <<"c", "s", "v">>
    [] name = "text"   -> <<"t", "e", "x", "t">>
    [] name = "Header" -> <<"H", "e", "a", "d", "e", "r">>
    [] name = "Sub"    -> <<"S", "u", "b">>
    [] name = "doc"    -> <<"d", "o", "c">>
    [] name = "Magic"  -> <<"M", "a", "g", "i", "c">>
    [] name = "MZ"     -> <<"M", "Z">>
    [] OTHER           -> NULLCHARS

RECURSIVE Flatten(_)
\* The concatenation of a sequence of sequences.
Flatten(seqs) == IF seqs = <<>> THEN <<>> ELSE Head(seqs) \o Flatten(Tail(seqs))

\* -------------------------------------------------------------- CSV plugin
\* The byte 255, a pointer that points at no string, and the end of the
\* process in an invalid memory access, where a result is expected.
BYTE_FF == "0xFF"
WILD == <<"WILD">>
SIGSEGV == <<"SIGSEGV">>

\* What undefined behaviour comes to, as the build decides. entity: the value
\* read at g_entities[255], one element past the table (NULL in one build, a
\* pointer to no string in another). printf_null: what printf("%s") does with
\* a null pointer (the C library prints "(null)", or reads through it).
OutOfBoundsReads == {NULLCHARS, WILD}
PrintfNullOutcomes == {<<"(", "n", "u", "l", "l", ")">>, SIGSEGV}
Undefined == [entity : OutOfBoundsReads, printf_null : PrintfNullOutcomes]

\* g_entities[c]: the replacement of byte c, NULLCHARS for no entry. Only
\* '\n' (10) and '"' (34) have one; the table has the elements 0..254, and oob
\* is what a read of element 255 gives.
g_entities(c, oob) ==
  CASE c = "\n"    -> <<"\\", "n">>
    [] c = "\""    -> <<"\"", "\"">>
    [] c = BYTE_FF -> oob
    [] OTHER       -> NULLCHARS

\* escape_ex(str, table): every byte with a table entry is replaced by it;
\* an entry that points at no string ends the process.
escape_ex(str, oob) ==
  IF \E i \in DOMAIN str : g_entities(str[i], oob) = WILD THEN SIGSEGV
  ELSE Flatten([i \in DOMAIN str |->
                  IF g_entities(str[i], oob) = NULLCHARS
                    THEN <<str[i]>> ELSE g_entities(str[i], oob)])

\* escape_ex_quoted(str, table): the same, enclosed in double quotes.
escape_ex_quoted(str, oob) ==
  IF escape_ex(str, oob) = SIGSEGV THEN SIGSEGV
  ELSE <<"\"">> \o escape_ex(str, oob) \o <<"\"">>

\* strpbrk(str, accept) != NULL
strpbrk(str, accept) == \E i \in DOMAIN str : str[i] \in accept

escape_csv(str, oob) ==
  IF str = NULLCHARS THEN NULLCHARS
  ELSE IF strpbrk(str, {"\n", "\"", ","})
    THEN escape_ex_quoted(str, oob) ELSE escape_ex(str, oob)

\* printf("%s", str) for one argument: the bytes written, or SIGSEGV.
PrintfString(str, ub) == IF str = NULLCHARS THEN ub.printf_null ELSE str

\* printf of these parts in a row.
PrintfParts(parts) ==
  IF \E i \in DOMAIN parts : parts[i] = SIGSEGV THEN SIGSEGV ELSE Flatten(parts)

\* Mutant: SCOPE_CLOSE prints nothing.
to_format_quiet_close(type, key, value, ub) ==
  LET escaped_key == escape_csv(key, ub.entity)
      escaped_value == escape_csv(value, ub.entity)
  IN IF escaped_key = SIGSEGV \/ escaped_value = SIGSEGV THEN SIGSEGV
     ELSE CASE type = "SCOPE_OPEN" ->
                 PrintfParts(<< <<"\n">>, PrintfString(escaped_key, ub), <<"\n">> >>)
            [] type = "ATTRIBUTE" ->
                 IF key # NULLCHARS /\ value # NULLCHARS
                   THEN escaped_key \o <<",">> \o escaped_value \o <<"\n">>
                 ELSE IF key # NULLCHARS THEN <<"\n">> \o escaped_key \o <<"\n">>
                 ELSE IF value # NULLCHARS THEN <<",">> \o escaped_value \o <<"\n">>
                 ELSE <<>>
            [] OTHER -> <<>>

\* to_format of the CSV plugin: the bytes printf() writes for one event, or
\* SIGSEGV. Both strings are escaped first, whatever the type; SCOPE_OPEN
\* prints the escaped key without testing it for NULL.
to_format(type, key, value, ub) ==
  LET escaped_key == escape_csv(key, ub.entity)
      escaped_value == escape_csv(value, ub.entity)
  IN IF escaped_key = SIGSEGV \/ escaped_value = SIGSEGV THEN SIGSEGV
     ELSE CASE type = "SCOPE_OPEN" ->
                 PrintfParts(<< <<"\n">>, PrintfString(escaped_key, ub), <<"\n">> >>)
            [] type = "SCOPE_CLOSE" -> <<"\n">>
            [] type = "ATTRIBUTE" ->
                 IF key # NULLCHARS /\ value # NULLCHARS
                   THEN escaped_key \o <<",">> \o escaped_value \o <<"\n">>
                 ELSE IF key # NULLCHARS THEN <<"\n">> \o escaped_key \o <<"\n">>
                 ELSE IF value # NULLCHARS THEN <<",">> \o escaped_value \o <<"\n">>
                 ELSE <<>>
            [] OTHER -> <<>>

\* The bytes the events print, or SIGSEGV. Only the CSV plugin's output_fn
\* (descriptor 1) is part of the sources; the other descriptors' output is not
\* recorded.
Printed(events, ub) ==
  PrintfParts([i \in DOMAIN events |->
                 IF events[i].format = 1
                   THEN to_format(events[i].type, CStr(events[i].key),
                                  CStr(events[i].value), ub)
                   ELSE <<>>])

\* No function of its arguments alone has been called.
NoPureCall == [fn |-> "none"]

\* ----------------------------------------------------------------- helpers
Call(op, fmt, key, value, ret) ==
  [op |-> op, fmt |-> fmt, key |-> key, value |-> value, ret |-> ret]

\* g_format->output_fn(g_format, type, level, key, value)
Event(fmt, type, level, key, value) ==
  [format |-> fmt, type |-> type, level |-> level, key |-> key, value |-> value]

DocumentEvents(events) ==
  SelectSeq(events, LAMBDA e : e.type \in {"DOCUMENT_OPEN", "DOCUMENT_CLOSE"})

RECURSIVE EventTypes(_)
EventTypes(events) ==
  IF events = <<>> THEN <<>>
  ELSE <<events[1].type>> \o EventTypes(Tail(events))

\* What printing the events can come to, over the outcomes of undefined
\* behaviour: one result when the events meet none.
PrintOutcomes(events) == {Printed(events, ub) : ub \in Undefined}

\* g_scope_stack at the time output_fn is called, for a call that leaves
\* `stack`: output_close_scope pops before it dispatches, output_open_scope
\* pushes after.
StackAtDispatch(stack) ==
  IF Len(stack) < Len(g_scope_stack) THEN stack ELSE g_scope_stack

\* output_fn ends the process in an invalid memory access: the event was
\* dispatched, nothing was printed, and no statement after the dispatch ran.
Crash(call, stack, events) ==
  /\ last' = call
  /\ phase' = "crashed"
  /\ emitted' = events
  /\ g_scope_stack' = StackAtDispatch(stack)
  /\ doc_trace' = doc_trace \o EventTypes(DocumentEvents(events))
  /\ calls' = IF capture THEN Append(calls, call) ELSE calls
  /\ UNCHANGED <<g_is_document_open, g_format, g_registered_formats, fatals,
                 capture, stdout, pure>>

\* The call returns normally: the new values of the program's variables and
\* the events it dispatched.
Return(call, open, fmt, stack, reg, ph, events) ==
  \E printed \in PrintOutcomes(events) :
    IF printed = SIGSEGV
      THEN Crash(call, stack, events)
      ELSE /\ last' = call
           /\ g_is_document_open' = open
           /\ g_format' = fmt
           /\ g_scope_stack' = stack
           /\ g_registered_formats' = reg
           /\ phase' = ph
           /\ emitted' = events
           /\ doc_trace' = doc_trace \o EventTypes(DocumentEvents(events))
           /\ fatals' = fatals
           /\ calls' = IF capture THEN Append(calls, call) ELSE calls
           /\ stdout' = IF capture THEN stdout \o printed ELSE stdout
           /\ UNCHANGED <<capture, pure>>

\* The call ends in abort() (a failed assert, or an explicit abort()) before
\* any dispatch: the process ends with `stack` as the scope stack.
Abort(call, stack) ==
  /\ last' = call
  /\ fatals' = fatals + 1
  /\ emitted' = <<>>
  /\ g_scope_stack' = stack
  /\ UNCHANGED <<g_is_document_open, g_format, g_registered_formats, phase, doc_trace>>
  /\ calls' = IF capture THEN Append(calls, call) ELSE calls
  /\ UNCHANGED <<capture, stdout, pure>>

\* The call ends in abort() after it dispatched `events`, on the value ret of
\* the statement that followed the dispatch.
AbortAfterDispatch(call, ret, stack, events) ==
  \E printed \in PrintOutcomes(events) :
    IF printed = SIGSEGV
      THEN Crash(call, stack, events)
      ELSE /\ last' = [call EXCEPT !.ret = ret]
           /\ fatals' = fatals + 1
           /\ emitted' = events
           /\ g_scope_stack' = stack
           /\ doc_trace' = doc_trace \o EventTypes(DocumentEvents(events))
           /\ UNCHANGED <<g_is_document_open, g_format, g_registered_formats, phase>>
           /\ calls' = IF capture THEN Append(calls, [call EXCEPT !.ret = ret]) ELSE calls
           /\ stdout' = IF capture THEN stdout \o printed ELSE stdout
           /\ UNCHANGED <<capture, pure>>

\* --------------------------------------------------------------------- API
\* Mutant: the new entry goes to the tail of the list instead of its head.
output_plugin_register_format_tail(format, malloc_ok) ==
  IF ~malloc_ok
    THEN Return(Call("register", format, NULLSTR, NULLSTR, -1),
                g_is_document_open, g_format, g_scope_stack,
                g_registered_formats, phase, <<>>)
    ELSE Return(Call("register", format, NULLSTR, NULLSTR, 0),
                g_is_document_open, g_format, g_scope_stack,
                Append(g_registered_formats, format), phase, <<>>)

\* Mutant: a format whose id is already registered is not inserted again.
output_plugin_register_format_unique(format, malloc_ok) ==
  IF ~malloc_ok
    THEN Return(Call("register", format, NULLSTR, NULLSTR, -1),
                g_is_document_open, g_format, g_scope_stack,
                g_registered_formats, phase, <<>>)
    ELSE Return(Call("register", format, NULLSTR, NULLSTR, 0),
                g_is_document_open, g_format, g_scope_stack,
                IF output_lookup_format_entry_by_id(g_registered_formats, FormatId(format), 1) # 0
                  THEN g_registered_formats
                  ELSE SLIST_INSERT_HEAD(g_registered_formats, format),
                phase, <<>>)

\* malloc_ok: whether malloc returned an entry (line 122).
output_plugin_register_format(format, malloc_ok) ==
  IF ~malloc_ok
    THEN Return(Call("register", format, NULLSTR, NULLSTR, -1),
                g_is_document_open, g_format, g_scope_stack,
                g_registered_formats, phase, <<>>)
    ELSE Return(Call("register", format, NULLSTR, NULLSTR, 0),
                g_is_document_open, g_format, g_scope_stack,
                SLIST_INSERT_HEAD(g_registered_formats, format), phase, <<>>)

\* Mutant: every entry with the format's id is removed.
output_plugin_unregister_format_all(format) ==
  Return(Call("unregister", format, NULLSTR, NULLSTR, 0),
         g_is_document_open, g_format, g_scope_stack,
         SelectSeq(g_registered_formats,
                   LAMBDA f : FormatId(f) # FormatId(format)),
         phase, <<>>)

output_plugin_unregister_format(format) ==
  LET entry == output_lookup_format_entry_by_id(g_registered_formats, FormatId(format), 1)
  IN Return(Call("unregister", format, NULLSTR, NULLSTR, 0),
            g_is_document_open, g_format, g_scope_stack,
            IF entry = 0 THEN g_registered_formats
                         ELSE SLIST_REMOVE(g_registered_formats, entry),
            phase, <<>>)

\* g_format is looked up by FORMAT_ID_FOR_TEXT and a fresh, empty stack is
\* allocated. STACK_ALLOC succeeds in this model, so the abort() of line 153
\* is not taken.
output_init ==
  Return(Call("init", NULL, NULLSTR, NULLSTR, 0),
         g_is_document_open,
         output_lookup_format_by_id(g_registered_formats, FORMAT_ID_FOR_TEXT),
         STACK_ALLOC(15), g_registered_formats, "running", <<>>)

\* Mutant: rebinding the format also drops the open document.
output_set_format_resets(format) ==
  Return(Call("set_format", format, NULLSTR, NULLSTR, 0),
         FALSE, format, g_scope_stack, g_registered_formats, phase, <<>>)

output_set_format(format) ==
  Return(Call("set_format", format, NULLSTR, NULLSTR, 0),
         g_is_document_open, format, g_scope_stack,
         g_registered_formats, phase, <<>>)

RECURSIVE output_parse_format_from(_, _, _)
\* SLIST_FOREACH from entry i on: the first format whose name strcmp()s equal.
output_parse_format_from(reg, format_name, i) ==
  IF i > Len(reg) THEN NULL
  ELSE IF FormatName(reg[i]) = format_name THEN reg[i]
  ELSE output_parse_format_from(reg, format_name, i + 1)

RECURSIVE output_parse_format_last(_, _, _)
\* Mutant: the loop has no break, so the last match wins.
output_parse_format_last(reg, format_name, i) ==
  IF i > Len(reg) THEN NULL
  ELSE LET rest == output_parse_format_last(reg, format_name, i + 1)
       IN IF rest # NULL THEN rest
          ELSE IF FormatName(reg[i]) = format_name THEN reg[i] ELSE NULL

\* Mutant entry point of output_parse_format.
output_parse_format_no_break(format_name) ==
  output_parse_format_last(g_registered_formats, format_name, 1)

output_parse_format(format_name) ==
  output_parse_format_from(g_registered_formats, format_name, 1)

output_set_format_by_name(format_name) ==
  LET format == output_parse_format(format_name)
  IN IF format = NULL
       THEN Return(Call("set_format_by_name", NULL, format_name, NULLSTR, -1),
                   g_is_document_open, g_format, g_scope_stack,
                   g_registered_formats, phase, <<>>)
       ELSE Return(Call("set_format_by_name", NULL, format_name, NULLSTR, 0),
                   g_is_document_open, format, g_scope_stack,
                   g_registered_formats, phase, <<>>)

\* The registry is emptied and the stack freed; g_format and the document
\* flag are left as they are. No API call is modelled after output_term (the
\* freed stack must not be used again).
output_term ==
  Return(Call("term", NULL, NULLSTR, NULLSTR, 0),
         g_is_document_open, g_format, g_scope_stack,
         <<>>, "terminated", <<>>)

\* Mutant: the document level is left out of the nesting level.
NestingLevel_no_doc(is_open, stack) == STACK_COUNT(stack) % UINT16_MOD

\* doc_level + scope_level, passed as the uint16_t level of output_fn.
NestingLevel(is_open, stack) ==
  LET doc_level == IF is_open THEN 1 ELSE 0
      scope_level == STACK_COUNT(stack)
  IN (doc_level + scope_level) % UINT16_MOD

\* if (g_format != NULL) g_format->output_fn(g_format, type, level, key, value);
Render(type, level, key, value) ==
  IF g_format # NULL THEN <<Event(g_format, type, level, key, value)>> ELSE <<>>

\* Mutant: the assertion that no document is open is missing.
output_open_document_with_name_reopen(document_name) ==
  LET call == Call("open_document", NULL, document_name, NULLSTR, 0)
  IN IF g_format = NULL
       THEN Abort(call, g_scope_stack)
       ELSE Return(call, TRUE, g_format, g_scope_stack, g_registered_formats,
                   phase, Render("DOCUMENT_OPEN", 0, document_name, NULLSTR))

output_open_document_with_name(document_name) ==
  LET call == Call("open_document", NULL, document_name, NULLSTR, 0)
  IN IF g_format = NULL \/ g_is_document_open
       THEN Abort(call, g_scope_stack)
       ELSE Return(call, TRUE, g_format, g_scope_stack, g_registered_formats,
                   phase, Render("DOCUMENT_OPEN", 0, document_name, NULLSTR))

output_open_document == output_open_document_with_name(NULLSTR)

\* Mutant: the document flag is not cleared.
output_close_document_stays_open ==
  LET call == Call("close_document", NULL, NULLSTR, NULLSTR, 0)
  IN IF g_format = NULL \/ ~g_is_document_open
       THEN Abort(call, g_scope_stack)
       ELSE Return(call, g_is_document_open, g_format, g_scope_stack,
                   g_registered_formats, phase,
                   Render("DOCUMENT_CLOSE", 0, NULLSTR, NULLSTR))

\* Mutant: closing a document requires every scope to be closed.
output_close_document_depth0 ==
  LET call == Call("close_document", NULL, NULLSTR, NULLSTR, 0)
  IN IF g_format = NULL \/ ~g_is_document_open \/ STACK_COUNT(g_scope_stack) # 0
       THEN Abort(call, g_scope_stack)
       ELSE Return(call, FALSE, g_format, g_scope_stack, g_registered_formats,
                   phase, Render("DOCUMENT_CLOSE", 0, NULLSTR, NULLSTR))

output_close_document ==
  LET call == Call("close_document", NULL, NULLSTR, NULLSTR, 0)
  IN IF g_format = NULL \/ ~g_is_document_open
       THEN Abort(call, g_scope_stack)
       ELSE Return(call, FALSE, g_format, g_scope_stack, g_registered_formats,
                   phase, Render("DOCUMENT_CLOSE", 0, NULLSTR, NULLSTR))

\* The event is dispatched before the push: a failed push (push_ok false)
\* aborts after the dispatch; the call is then recorded with the ret of
\* STACK_PUSH.
output_open_scope(scope_name, push_ok) ==
  LET call == Call("open_scope", NULL, scope_name, NULLSTR, 0)
      level == NestingLevel(g_is_document_open, g_scope_stack)
      push == STACK_PUSH(g_scope_stack, scope_name, push_ok)
  IN IF g_format = NULL
       THEN Abort(call, g_scope_stack)
       ELSE IF push.ret < 0
         THEN AbortAfterDispatch(call, push.ret, push.stack,
                                 Render("SCOPE_OPEN", level, scope_name, NULLSTR))
         ELSE Return(call, g_is_document_open, g_format, push.stack,
                     g_registered_formats, phase,
                     Render("SCOPE_OPEN", level, scope_name, NULLSTR))

\* Mutant: the top of the stack is read but not removed.
output_close_scope_peek ==
  LET call == Call("close_scope", NULL, NULLSTR, NULLSTR, 0)
      pop == STACK_POP(g_scope_stack)
      level == NestingLevel(g_is_document_open, pop.stack)
  IN IF g_format = NULL
       THEN Abort(call, g_scope_stack)
       ELSE IF pop.ret < 0
         THEN Abort(call, pop.stack)
         ELSE Return(call, g_is_document_open, g_format, g_scope_stack,
                     g_registered_formats, phase,
                     Render("SCOPE_CLOSE", level, pop.element, NULLSTR))

\* Mutant: the result of STACK_POP is not checked.
output_close_scope_unchecked ==
  LET call == Call("close_scope", NULL, NULLSTR, NULLSTR, 0)
      pop == STACK_POP(g_scope_stack)
      level == NestingLevel(g_is_document_open, pop.stack)
  IN IF g_format = NULL
       THEN Abort(call, g_scope_stack)
       ELSE Return(call, g_is_document_open, g_format, pop.stack,
                   g_registered_formats, phase,
                   Render("SCOPE_CLOSE", level, pop.element, NULLSTR))

\* Mutant: the event names the oldest open scope instead of the newest.
output_close_scope_oldest ==
  LET call == Call("close_scope", NULL, NULLSTR, NULLSTR, 0)
      pop == STACK_POP(g_scope_stack)
      level == NestingLevel(g_is_document_open, pop.stack)
  IN IF g_format = NULL
       THEN Abort(call, g_scope_stack)
       ELSE IF pop.ret < 0
         THEN Abort(call, pop.stack)
         ELSE Return(call, g_is_document_open, g_format, pop.stack,
                     g_registered_formats, phase,
                     Render("SCOPE_CLOSE", level, g_scope_stack[1], NULLSTR))

output_close_scope ==
  LET call == Call("close_scope", NULL, NULLSTR, NULLSTR, 0)
      pop == STACK_POP(g_scope_stack)
      level == NestingLevel(g_is_document_open, pop.stack)
  IN IF g_format = NULL
       THEN Abort(call, g_scope_stack)
       ELSE IF pop.ret < 0
         THEN Abort(call, pop.stack)
         ELSE Return(call, g_is_document_open, g_format, pop.stack,
                     g_registered_formats, phase,
                     Render("SCOPE_CLOSE", level, pop.element, NULLSTR))

\* Mutant: the assertion that a format is bound is missing.
output_keyval_no_assert(key, value) ==
  LET call == Call("keyval", NULL, key, value, 0)
      level == NestingLevel(g_is_document_open, g_scope_stack)
  IN Return(call, g_is_document_open, g_format, g_scope_stack,
            g_registered_formats, phase,
            Render("ATTRIBUTE", level, key, value))

\* Mutant: the attribute is dispatched twice.
output_keyval_twice(key, value) ==
  LET call == Call("keyval", NULL, key, value, 0)
      level == NestingLevel(g_is_document_open, g_scope_stack)
  IN IF g_format = NULL
       THEN Abort(call, g_scope_stack)
       ELSE Return(call, g_is_document_open, g_format, g_scope_stack,
                   g_registered_formats, phase,
                   Render("ATTRIBUTE", level, key, value)
                     \o Render("ATTRIBUTE", level, key, value))

output_keyval(key, value) ==
  LET call == Call("keyval", NULL, key, value, 0)
      level == NestingLevel(g_is_document_open, g_scope_stack)
  IN IF g_format = NULL
       THEN Abort(call, g_scope_stack)
       ELSE Return(call, g_is_document_open, g_format, g_scope_stack,
                   g_registered_formats, phase,
                   Render("ATTRIBUTE", level, key, value))

output(key, value) == output_keyval(key, value)

\* ---------------------------------------------------------- specification
Init ==
  /\ g_is_document_open = FALSE
  /\ g_format = NULL
  /\ g_scope_stack = <<>>
  /\ g_registered_formats = <<>>
  /\ phase = "start"
  /\ fatals = 0
  /\ emitted = <<>>
  /\ doc_trace = <<>>
  /\ h_unclosed = 0
  /\ last = Call("none", NULL, NULLSTR, NULLSTR, 0)
  /\ capture = FALSE
  /\ calls = <<>>
  /\ stdout = <<>>
  /\ pure = NoPureCall

\* The process has not ended.
Alive == fatals = 0 /\ phase \notin {"terminated", "crashed"}

CallRegister ==
  /\ Alive /\ Len(g_registered_formats) < MaxReg
  /\ \E f \in Formats, ok \in BOOLEAN : output_plugin_register_format(f, ok)
  /\ UNCHANGED h_unclosed

CallUnregister ==
  /\ Alive
  /\ \E f \in Formats : output_plugin_unregister_format(f)
  /\ UNCHANGED h_unclosed

CallInit ==
  /\ Alive /\ phase = "start"
  /\ output_init
  /\ UNCHANGED h_unclosed

CallSetFormat ==
  /\ Alive
  /\ \E f \in Formats \cup {NULL} : output_set_format(f)
  /\ UNCHANGED h_unclosed

CallSetFormatByName ==
  /\ Alive
  /\ \E n \in FormatNameArgs : output_set_format_by_name(n)
  /\ UNCHANGED h_unclosed

CallTerm ==
  /\ Alive /\ phase = "running"
  /\ output_term
  /\ UNCHANGED h_unclosed

CallOpenDocument ==
  /\ Alive /\ phase = "running" /\ Len(doc_trace) < MaxDocEvents
  /\ \/ \E n \in DocNames \ {NULLSTR} : output_open_document_with_name(n)
     \/ output_open_document
  /\ UNCHANGED h_unclosed

CallCloseDocument ==
  /\ Alive /\ phase = "running" /\ Len(doc_trace) < MaxDocEvents
  /\ output_close_document
  /\ UNCHANGED h_unclosed

CallOpenScope ==
  /\ Alive /\ phase = "running" /\ Len(g_scope_stack) < MaxDepth
  /\ \E n \in ScopeNames, push_ok \in BOOLEAN : output_open_scope(n, push_ok)
  /\ h_unclosed' = IF fatals' = fatals /\ phase' # "crashed"
                     THEN h_unclosed + 1 ELSE h_unclosed

CallCloseScope ==
  /\ Alive /\ phase = "running"
  /\ output_close_scope
  /\ h_unclosed' = IF fatals' = fatals /\ phase' # "crashed"
                     THEN h_unclosed - 1 ELSE h_unclosed

CallKeyval ==
  /\ Alive /\ phase = "running"
  /\ \E k \in Keys, v \in Values : \/ output_keyval(k, v)
                                   \/ output(k, v)
  /\ UNCHANGED h_unclosed

Next ==
  \/ CallRegister
  \/ CallUnregister
  \/ CallInit
  \/ CallSetFormat
  \/ CallSetFormatByName
  \/ CallTerm
  \/ CallOpenDocument
  \/ CallCloseDocument
  \/ CallOpenScope
  \/ CallCloseScope
  \/ CallKeyval

Spec == Init /\ [][Next]_vars

\* --------------------------------------- specifications of single functions
\* The program's variables before any API call; the specifications below
\* call one function of its arguments alone and leave these as they are.
Globals0 ==
  /\ g_is_document_open = FALSE
  /\ g_format = NULL
  /\ g_scope_stack = <<>>
  /\ g_registered_formats = <<>>
  /\ phase = "start"
  /\ fatals = 0
  /\ emitted = <<>>
  /\ doc_trace = <<>>
  /\ h_unclosed = 0
  /\ last = Call("none", NULL, NULLSTR, NULLSTR, 0)
  /\ capture = FALSE
  /\ calls = <<>>
  /\ stdout = <<>>

GlobalsUnchanged ==
  UNCHANGED <<g_is_document_open, g_format, g_scope_stack, g_registered_formats,
              phase, fatals, emitted, doc_trace, h_unclosed, last,
              capture, calls, stdout>>

\* The sequences over S of length at most n.
SeqUpTo(S, n) == UNION {[1..k -> S] : k \in 0..n}

\* escape_csv: any string of at most MaxStrLen of these bytes, or NULL.
EscapeChars == {"a", ",", "\"", "\n", BYTE_FF}
EscapeInputs == SeqUpTo(EscapeChars, MaxStrLen) \cup {NULLCHARS}

InitEscape ==
  /\ Globals0
  /\ \E str \in EscapeInputs :
       pure = [fn |-> "escape_csv", str |-> str, done |-> FALSE, out |-> NULLCHARS]

CallEscapeCsv ==
  /\ pure.fn = "escape_csv" /\ ~pure.done
  /\ \E oob \in OutOfBoundsReads :
       pure' = [pure EXCEPT !.done = TRUE, !.out = escape_csv(pure.str, oob)]
  /\ GlobalsUnchanged

NextEscape == CallEscapeCsv

SpecEscape == InitEscape /\ [][NextEscape]_vars

\* The controller with the CSV format bound and stdout recorded: the state
\* after plugin_initialize() of the CSV plugin, output_init() and
\* output_set_format_by_name("csv"); then at most MaxCalls controller calls.
InitCsv ==
  /\ g_is_document_open = FALSE
  /\ g_format = 1
  /\ g_scope_stack = <<>>
  /\ g_registered_formats = <<1>>
  /\ phase = "running"
  /\ fatals = 0
  /\ emitted = <<>>
  /\ doc_trace = <<>>
  /\ h_unclosed = 0
  /\ last = Call("set_format_by_name", NULL, "csv", NULLSTR, 0)
  /\ capture = TRUE
  /\ calls = <<>>
  /\ stdout = <<>>
  /\ pure = NoPureCall

CsvOpenDocument == Len(calls) < MaxCalls /\ CallOpenDocument
CsvCloseDocument == Len(calls) < MaxCalls /\ CallCloseDocument
CsvOpenScope == Len(calls) < MaxCalls /\ CallOpenScope
CsvCloseScope == Len(calls) < MaxCalls /\ CallCloseScope
CsvKeyval == Len(calls) < MaxCalls /\ CallKeyval

NextCsv ==
  \/ CsvOpenDocument
  \/ CsvCloseDocument
  \/ CsvOpenScope
  \/ CsvCloseScope
  \/ CsvKeyval

SpecCsv == InitCsv /\ [][NextCsv]_vars

\* ----------------------------------------------------------- str_array_join
\* The array char *strings[] is given as the sequence arr of its strings,
\* followed in memory by a NULL element as in argv; strings[k] for k from 0.
StringAt(arr, k) == IF k < Len(arr) THEN arr[k + 1] ELSE NULLCHARS

RECURSIVE JoinResultLength(_, _)
\* The first loop: the sum of strlen(strings[i]) + 1 over i < count.
JoinResultLength(arr, count) ==
  IF count = 0 THEN 0
  ELSE JoinResultLength(arr, count - 1) + Len(StringAt(arr, count - 1)) + 1

RECURSIVE JoinFill(_, _, _, _, _, _, _)
\* The second loop, at index i of n: cs is the index of current_string, cc
\* the offset of current_char in it, result the bytes written so far.
JoinFill(arr, delimiter, n, i, cs, cc, result) ==
  IF i >= n THEN result
  ELSE IF cc < Len(StringAt(arr, cs))
    THEN JoinFill(arr, delimiter, n, i + 1, cs, cc + 1,
                  Append(result, StringAt(arr, cs)[cc + 1]))
    ELSE JoinFill(arr, delimiter, n, i + 1, cs + 1, 0, Append(result, delimiter))

\* What a call comes to: a string, the null pointer, or the end of the
\* process in a write outside the allocated block.
StringResult(str) == [kind |-> "string", value |-> str]
NullResult == [kind |-> "null", value |-> NULLCHARS]
CrashResult == [kind |-> "crash", value |-> NULLCHARS]

\* str_array_join(strings, count, delimiter). strings_null: strings == NULL.
\* With count = 0 and a first string, result_length is 0: malloc(0) returns
\* NULL (malloc0_null), which is returned, or a block of no bytes, and then
\* result[--result_length] writes at index SIZE_MAX and the second loop runs
\* SIZE_MAX times over that block: undefined behaviour, the process crashes.
\* A malloc of one byte or more succeeds in this model.
str_array_join(strings_null, arr, count, delimiter, malloc0_null) ==
  IF strings_null \/ StringAt(arr, 0) = NULLCHARS THEN StringResult(<<>>)
  ELSE LET result_length == JoinResultLength(arr, count)
       IN IF result_length = 0
            THEN IF malloc0_null THEN NullResult ELSE CrashResult
            ELSE StringResult(JoinFill(arr, delimiter, result_length - 1, 0, 0, 0, <<>>))

JoinChars == {"a", "b"}
JoinDelimiters == {" ", ","}

InitJoin ==
  /\ Globals0
  /\ \E strings_null \in BOOLEAN,
        arr \in SeqUpTo(SeqUpTo(JoinChars, MaxWordLen), MaxCount),
        delimiter \in JoinDelimiters :
       \E count \in 0..Len(arr) :
         pure = [fn |-> "str_array_join", strings_null |-> strings_null,
                 arr |-> arr, count |-> count, delimiter |-> delimiter,
                 done |-> FALSE, out |-> NullResult]

CallStrArrayJoin ==
  /\ pure.fn = "str_array_join" /\ ~pure.done
  /\ \E malloc0_null \in BOOLEAN :
       pure' = [pure EXCEPT !.done = TRUE,
                            !.out = str_array_join(pure.strings_null, pure.arr,
                                                   pure.count, pure.delimiter,
                                                   malloc0_null)]
  /\ GlobalsUnchanged

NextJoin == CallStrArrayJoin

SpecJoin == InitJoin /\ [][NextJoin]_vars

\* --------------------------------------------------- output_available_formats
\* The byte '\0' of a buffer, and (size_t)-1, the index that 0 - 1 wraps to:
\* greater than every size, written as the C literal.
NUL == "NUL"
SIZE_MAX == -1

Min(a, b) == IF a < b THEN a ELSE b

\* memset(buffer, 0, size): a buffer is a function from 0..size-1 to bytes.
memset0(size) == [i \in 0..(size - 1) |-> NUL]

\* strnlen(buffer, size): the index of the first '\0', or size without one.
strnlen(buffer, size) ==
  IF \E i \in 0..(size - 1) : buffer[i] = NUL
    THEN CHOOSE i \in 0..(size - 1) :
           buffer[i] = NUL /\ \A j \in 0..(i - 1) : buffer[j] # NUL
    ELSE size

\* The C string held by a buffer.
CStringOf(buffer, size) ==
  [i \in 1..strnlen(buffer, size) |-> buffer[i - 1]]

\* bsd_strlcat(dst, src, size) of the BSD library: appends as much of src as
\* fits with its terminator and returns the length of the string it tried to
\* make; a dst without terminator is left alone.
bsd_strlcat(dst, src, size) ==
  LET dlen == strnlen(dst, size)
      n == Min(Len(src), size - dlen - 1)
  IN IF dlen = size
       THEN [buffer |-> dst, ret |-> size + Len(src), writes |-> {}]
       ELSE [buffer |-> [i \in 0..(size - 1) |->
                           IF i < dlen THEN dst[i]
                           ELSE IF i < dlen + n THEN src[i - dlen + 1]
                           ELSE IF i = dlen + n THEN NUL
                           ELSE dst[i]],
             ret |-> dlen + Len(src),
             writes |-> dlen..(dlen + n)]

\* buffer[index] = byte, recorded in writes; a write outside the buffer is
\* undefined behaviour: only its index is kept.
StoreByte(st, size, index, byte) ==
  [st EXCEPT !.buffer = IF index \in 0..(size - 1)
                          THEN [st.buffer EXCEPT ![index] = byte]
                          ELSE st.buffer,
             !.writes = st.writes \cup {index}]

\* One turn of SLIST_FOREACH, for the entry whose format is f.
AvailableFormatsStep(st, f, size, separator) ==
  IF ~st.truncated
    THEN LET cat == bsd_strlcat(st.buffer, CStr(FormatName(f)), size)
             st1 == [st EXCEPT !.buffer = cat.buffer, !.consumed = cat.ret,
                               !.writes = st.writes \cup cat.writes]
         IN IF cat.ret > size
              THEN [st1 EXCEPT !.total_available = st.total_available + 1,
                               !.truncated = TRUE]
              ELSE IF cat.ret < size - 1
                THEN [StoreByte(st1, size, cat.ret, separator) EXCEPT
                        !.consumed = cat.ret + 1,
                        !.total_available = st.total_available + 1]
                ELSE [st1 EXCEPT !.total_available = st.total_available + 1]
    ELSE [st EXCEPT !.total_available = st.total_available + 1]

RECURSIVE AvailableFormatsLoop(_, _, _, _)
\* SLIST_FOREACH over the entries, from the head.
AvailableFormatsLoop(st, reg, size, separator) ==
  IF reg = <<>> THEN st
  ELSE AvailableFormatsLoop(AvailableFormatsStep(st, Head(reg), size, separator),
                            Tail(reg), size, separator)

\* output_available_formats(buffer, size, separator) over the registry reg:
\* the buffer afterwards, the value returned and the indices written.
output_available_formats(reg, size, separator) ==
  LET st0 == [buffer |-> memset0(size), consumed |-> 0, truncated |-> FALSE,
              total_available |-> 0, writes |-> 0..(size - 1)]
      st == AvailableFormatsLoop(st0, reg, size, separator)
      last_index == IF st.consumed = 0 THEN SIZE_MAX ELSE st.consumed - 1
      end == StoreByte(st, size, last_index, NUL)
  IN [buffer |-> end.buffer, ret |-> end.total_available, writes |-> end.writes]

Separators == {",", "|"}

InitAvail ==
  /\ g_is_document_open = FALSE
  /\ g_format = NULL
  /\ g_scope_stack = <<>>
  /\ g_registered_formats \in SeqUpTo(Formats, MaxReg)
  /\ phase = "running"
  /\ fatals = 0
  /\ emitted = <<>>
  /\ doc_trace = <<>>
  /\ h_unclosed = 0
  /\ last = Call("none", NULL, NULLSTR, NULLSTR, 0)
  /\ capture = FALSE
  /\ calls = <<>>
  /\ stdout = <<>>
  /\ \E size \in 1..MaxBuf, separator \in Separators :
       pure = [fn |-> "output_available_formats", size |-> size,
               separator |-> separator, done |-> FALSE,
               out |-> [buffer |-> memset0(size), ret |-> 0, writes |-> {}]]

CallAvailableFormats ==
  /\ pure.fn = "output_available_formats" /\ ~pure.done
  /\ pure' = [pure EXCEPT !.done = TRUE,
                          !.out = output_available_formats(g_registered_formats,
                                                           pure.size, pure.separator)]
  /\ GlobalsUnchanged

NextAvail == CallAvailableFormats

SpecAvail == InitAvail /\ [][NextAvail]_vars

\* ------------------------------------------------------------------ claims
ScopeCalls == {"open_scope", "close_scope"}

\* C1 (as stated): in a well-paired sequence of open_scope/close_scope calls
\* (each close made while the caller has an unclosed open) no call aborts,
\* and whenever the caller has closed every scope it opened the stack is empty.
C1_AsStated ==
  [][ /\ (last'.op = "open_scope" => fatals' = 0)
      /\ (last'.op = "close_scope" /\ h_unclosed > 0 => fatals' = 0)
      /\ (h_unclosed' = 0 => g_scope_stack' = <<>>) ]_vars

\* C1 (amended): the same, for the calls made while a format is bound and
\* whose push succeeds; a scope call made with no format bound fails its
\* assertion, and an open_scope whose push fails aborts.
C1_WellPairedScopes ==
  [][ /\ (last'.op = "open_scope" /\ g_format # NULL
            => IF last'.ret = 0 THEN fatals' = 0 ELSE fatals' = 1)
      /\ (last'.op = "close_scope" /\ h_unclosed > 0 /\ g_format # NULL
            => fatals' = 0)
      /\ (h_unclosed' = 0 => g_scope_stack' = <<>>) ]_vars

\* A close_scope that returned and emptied the stack again.
C1_Witness ==
  /\ last.op = "close_scope" /\ fatals = 0
  /\ emitted # <<>> /\ emitted[1].level = 0
  /\ h_unclosed = 0 /\ g_scope_stack = <<>>

\* C2: a close_scope call made on the empty scope stack aborts, which is the
\* one and only abort of the run, dispatches no event, and no call (hence no
\* event) follows an abort.
C2_UnmatchedCloseIsFatal ==
  [][ /\ fatals = 0
      /\ (last'.op = "close_scope" /\ g_scope_stack = <<>>
            => /\ fatals' = 1
               /\ emitted' = <<>>
               /\ doc_trace' = doc_trace
               /\ g_scope_stack' = <<>>) ]_vars

\* close_scope aborted on the empty stack with a format bound.
C2_Witness ==
  /\ last.op = "close_scope" /\ fatals = 1
  /\ g_format # NULL /\ g_scope_stack = <<>> /\ emitted = <<>>

\* C3 (as stated): open_document aborts with no event when a document is
\* open or no format is bound; otherwise it dispatches one DOCUMENT_OPEN at
\* level 0 with the name as key and leaves the document open at depth 0.
C3_AsStated ==
  [][ last'.op = "open_document" =>
        IF g_is_document_open \/ g_format = NULL
          THEN fatals' = 1 /\ emitted' = <<>> /\ doc_trace' = doc_trace
          ELSE /\ fatals' = 0
               /\ emitted' = <<Event(g_format, "DOCUMENT_OPEN", 0, last'.key, NULLSTR)>>
               /\ g_is_document_open'
               /\ Len(g_scope_stack') = 0 ]_vars

\* C3 (amended): as stated, except that the scope stack is left as it was
\* (the depth is 0 after the call only if it was 0 before).
C3_OpenDocument ==
  [][ last'.op = "open_document" =>
        IF g_is_document_open \/ g_format = NULL
          THEN fatals' = 1 /\ emitted' = <<>> /\ doc_trace' = doc_trace
          ELSE /\ fatals' = 0
               /\ emitted' = <<Event(g_format, "DOCUMENT_OPEN", 0, last'.key, NULLSTR)>>
               /\ g_is_document_open'
               /\ g_scope_stack' = g_scope_stack ]_vars

\* A named document opened while a scope was already open.
C3_Witness ==
  /\ last.op = "open_document" /\ last.key = "doc" /\ fatals = 0
  /\ g_is_document_open /\ Len(g_scope_stack) > 0
  /\ Len(emitted) = 1 /\ emitted[1].type = "DOCUMENT_OPEN"

\* C4 (as stated): close_document aborts with no event when no document is
\* open; when one is open it succeeds at any depth, dispatches one
\* DOCUMENT_CLOSE at level 0, clears the flag and leaves the scope stack.
C4_AsStated ==
  [][ last'.op = "close_document" =>
        IF ~g_is_document_open
          THEN fatals' = 1 /\ emitted' = <<>> /\ doc_trace' = doc_trace
          ELSE /\ fatals' = 0
               /\ Len(emitted') = 1
               /\ emitted'[1].type = "DOCUMENT_CLOSE" /\ emitted'[1].level = 0
               /\ ~g_is_document_open'
               /\ g_scope_stack' = g_scope_stack ]_vars

\* C4 (amended): as stated, with "a document is open and a format is bound"
\* for the success case; with no format bound the call aborts, no event.
C4_CloseDocument ==
  [][ last'.op = "close_document" =>
        IF ~g_is_document_open \/ g_format = NULL
          THEN fatals' = 1 /\ emitted' = <<>> /\ doc_trace' = doc_trace
          ELSE /\ fatals' = 0
               /\ emitted' = <<Event(g_format, "DOCUMENT_CLOSE", 0, NULLSTR, NULLSTR)>>
               /\ ~g_is_document_open'
               /\ g_scope_stack' = g_scope_stack ]_vars

\* A document closed while two scopes were still open.
C4_Witness ==
  /\ last.op = "close_document" /\ fatals = 0
  /\ ~g_is_document_open /\ Len(g_scope_stack) = MaxDepth
  /\ Len(emitted) = 1 /\ emitted[1].type = "DOCUMENT_CLOSE"

\* C5: the document events dispatched so far alternate, DOCUMENT_OPEN first,
\* and the document flag is set exactly when the last of them is an open.
C5_SingleDocument ==
  /\ \A i \in DOMAIN doc_trace :
       doc_trace[i] = IF i % 2 = 1 THEN "DOCUMENT_OPEN" ELSE "DOCUMENT_CLOSE"
  /\ g_is_document_open <=>
       (doc_trace # <<>> /\ doc_trace[Len(doc_trace)] = "DOCUMENT_OPEN")

\* A second document opened after the first was closed.
C5_Witness ==
  /\ doc_trace = <<"DOCUMENT_OPEN", "DOCUMENT_CLOSE", "DOCUMENT_OPEN">>
  /\ g_is_document_open /\ fatals = 0

\* C6: every event a call dispatches carries level 0 for DOCUMENT_OPEN and
\* DOCUMENT_CLOSE, and (1 if a document is open else 0) + depth otherwise,
\* the depth being the one before the push for SCOPE_OPEN, the one after the
\* pop for SCOPE_CLOSE and the current one for ATTRIBUTE.
C6_EventLevel ==
  [][ \A i \in DOMAIN emitted' :
        LET e == emitted'[i]
            doc == IF g_is_document_open THEN 1 ELSE 0
        IN CASE e.type = "SCOPE_OPEN"  -> e.level = doc + Len(g_scope_stack)
             [] e.type = "SCOPE_CLOSE" -> e.level = doc + Len(g_scope_stack')
             [] e.type = "ATTRIBUTE"   ->
                  e.level = doc + Len(g_scope_stack) /\ g_scope_stack' = g_scope_stack
             [] OTHER -> e.level = 0 ]_vars

\* A scope opened inside an open document at depth 1: level 2.
C6_Witness ==
  /\ last.op = "open_scope" /\ g_is_document_open /\ Len(g_scope_stack) = 2
  /\ Len(emitted) = 1 /\ emitted[1].type = "SCOPE_OPEN" /\ emitted[1].level = 2

\* C7: an open_scope that returns has pushed its name on top of the stack, and
\* a close_scope that returns removes exactly the top element, the most
\* recently opened scope still open, and dispatches one SCOPE_CLOSE event
\* with that name as key.
C7_ScopesAreLifo ==
  [][ /\ (last'.op = "open_scope" /\ fatals' = 0 /\ phase' # "crashed"
            => g_scope_stack' = Append(g_scope_stack, last'.key))
      /\ (last'.op = "close_scope" /\ fatals' = 0 /\ phase' # "crashed"
            => /\ g_scope_stack # <<>>
               /\ g_scope_stack' = SubSeq(g_scope_stack, 1, Len(g_scope_stack) - 1)
               /\ Len(emitted') = 1
               /\ emitted'[1].type = "SCOPE_CLOSE"
               /\ emitted'[1].key = g_scope_stack[Len(g_scope_stack)]) ]_vars

\* The inner scope "Sub" closed while the outer scope "Header" stays open.
C7_Witness ==
  /\ last.op = "close_scope" /\ fatals = 0
  /\ g_scope_stack = <<"Header">>
  /\ Len(emitted) = 1 /\ emitted[1].type = "SCOPE_CLOSE" /\ emitted[1].key = "Sub"

RenderCalls == {"open_scope", "close_scope", "keyval"}

\* C8 (as stated): with no format bound, open_scope, close_scope and keyval
\* dispatch no event and do not abort.
C8_AsStated ==
  [][ last'.op \in RenderCalls /\ g_format = NULL
        => emitted' = <<>> /\ fatals' = 0 ]_vars

\* C8 (amended): with no format bound, open_scope, close_scope and keyval
\* dispatch no event and abort on their assertion that a format is bound,
\* leaving the document flag and the scope stack as they were.
C8_NoFormatBound ==
  [][ last'.op \in RenderCalls /\ g_format = NULL
        => /\ emitted' = <<>>
           /\ fatals' = 1
           /\ UNCHANGED <<g_is_document_open, g_scope_stack, doc_trace>> ]_vars

\* keyval called with no format bound.
C8_Witness ==
  /\ last.op = "keyval" /\ last.key = "Magic" /\ g_format = NULL
  /\ fatals = 1 /\ emitted = <<>>

\* C9: output_set_format binds the given format and changes nothing else:
\* the document flag, the scope stack and the registry stay, nothing is
\* dispatched and nothing aborts.
C9_SetFormatFrame ==
  [][ last'.op = "set_format"
        => /\ g_format' = last'.fmt
           /\ UNCHANGED <<g_is_document_open, g_scope_stack,
                          g_registered_formats, doc_trace, fatals, phase>>
           /\ emitted' = <<>> ]_vars

\* The format rebound while a document and two scopes are open.
C9_Witness ==
  /\ last.op = "set_format" /\ last.fmt = 1 /\ g_format = 1
  /\ g_is_document_open /\ Len(g_scope_stack) = MaxDepth
  /\ g_registered_formats # <<>>

\* The number of registry entries whose format has this id.
EntriesWithId(reg, id) ==
  Cardinality({i \in DOMAIN reg : FormatId(reg[i]) = id})

\* C10 (as stated): after a successful register(d) the lookup by d.id yields
\* d, and after unregister(d) the lookup by d.id yields none.
C10_AsStated ==
  /\ (last.op = "register" /\ last.ret = 0
        => output_lookup_format_by_id(g_registered_formats, FormatId(last.fmt)) = last.fmt)
  /\ (last.op = "unregister"
        => output_lookup_format_by_id(g_registered_formats, FormatId(last.fmt)) = NULL)

\* C10 (amended): after a successful register(d) the lookup by d.id yields
\* d; unregister(d) removes one entry with d.id, so the lookup by d.id then
\* yields none exactly when the registry held at most one entry with that id.
C10_RegistryRoundTrip ==
  [][ /\ (last'.op = "register" /\ last'.ret = 0
            => output_lookup_format_by_id(g_registered_formats', FormatId(last'.fmt))
                 = last'.fmt)
      /\ (last'.op = "unregister"
            => (output_lookup_format_by_id(g_registered_formats', FormatId(last'.fmt)) = NULL
                  <=> EntriesWithId(g_registered_formats, FormatId(last'.fmt)) <= 1)) ]_vars

\* unregister(d) of the only entry with d.id, another format staying listed.
C10_Witness ==
  /\ last.op = "unregister" /\ last.fmt = 1
  /\ g_registered_formats = <<2>>
  /\ output_lookup_format_by_id(g_registered_formats, FormatId(1)) = NULL

\* No two registry entries hold formats with the same id.
AtMostOneEntryPerId(reg) ==
  \A i, j \in DOMAIN reg : FormatId(reg[i]) = FormatId(reg[j]) => i = j

\* C11 (as stated): in every reachable state the registry holds at most one
\* entry per format id.
C11_AsStated == AtMostOneEntryPerId(g_registered_formats)

\* C11 (amended): register inserts without looking for the id, so a register
\* call leaves at most one entry per id exactly when that held before and the
\* call either failed or registered an id that was absent; unregister keeps
\* at most one entry per id once it holds.
C11_OneEntryPerIdByDiscipline ==
  [][ /\ (last'.op = "register"
            => (AtMostOneEntryPerId(g_registered_formats')
                  <=> /\ AtMostOneEntryPerId(g_registered_formats)
                      /\ (last'.ret = 0 =>
                            EntriesWithId(g_registered_formats, FormatId(last'.fmt)) = 0)))
      /\ (last'.op = "unregister" /\ AtMostOneEntryPerId(g_registered_formats)
            => AtMostOneEntryPerId(g_registered_formats')) ]_vars

\* A second format registered under an id of its own.
C11_Witness ==
  /\ last.op = "register" /\ last.ret = 0 /\ last.fmt = 2
  /\ g_registered_formats = <<2, 1>>
  /\ AtMostOneEntryPerId(g_registered_formats)

\* The least element of a non-empty set of numbers.
Least(S) == CHOOSE x \in S : \A y \in S : x <= y

\* C13: output_set_format_by_name(name) returns -1 and changes nothing when
\* no registered descriptor has exactly that name (output_parse_format yields
\* none); otherwise it returns 0 and binds the first descriptor in collection
\* order with that name, which is what output_parse_format yields. Neither
\* case touches the document flag, the scope stack or the registry.
C13_LookupByName ==
  [][ last'.op = "set_format_by_name" =>
        LET hits == {i \in DOMAIN g_registered_formats :
                       FormatName(g_registered_formats[i]) = last'.key}
        IN /\ UNCHANGED <<g_is_document_open, g_scope_stack, g_registered_formats,
                          fatals, doc_trace>>
           /\ emitted' = <<>>
           /\ IF hits = {}
                THEN /\ output_parse_format(last'.key) = NULL
                     /\ last'.ret < 0
                     /\ g_format' = g_format
                ELSE /\ output_parse_format(last'.key) = g_registered_formats[Least(hits)]
                     /\ last'.ret = 0
                     /\ g_format' = g_registered_formats[Least(hits)] ]_vars

\* "CSV" asked for while "csv" is registered and bound, a document open.
C13_Witness ==
  /\ last.op = "set_format_by_name" /\ last.key = "CSV" /\ last.ret = -1
  /\ g_format = 1 /\ 1 \in {g_registered_formats[i] : i \in DOMAIN g_registered_formats}
  /\ g_is_document_open /\ g_scope_stack # <<>>

\* C16 (as stated): in every state output_keyval dispatches exactly one
\* ATTRIBUTE event with the given key and value to the active format and
\* changes neither the flag, the stack, the active format nor the registry.
C16_AsStated ==
  [][ last'.op = "keyval"
        => /\ Len(emitted') = 1
           /\ emitted'[1].type = "ATTRIBUTE"
           /\ emitted'[1].key = last'.key /\ emitted'[1].value = last'.value
           /\ emitted'[1].format = g_format
           /\ UNCHANGED <<g_is_document_open, g_scope_stack, g_format,
                          g_registered_formats>> ]_vars

\* C16 (amended): so it is in every state where a format is bound; with no
\* format bound the call dispatches nothing and aborts, the flag, the stack,
\* the active format and the registry unchanged all the same.
C16_KeyvalFrame ==
  [][ last'.op = "keyval"
        => /\ UNCHANGED <<g_is_document_open, g_scope_stack, g_format,
                          g_registered_formats>>
           /\ IF g_format = NULL
                THEN emitted' = <<>> /\ fatals' = 1
                ELSE /\ fatals' = 0
                     /\ Len(emitted') = 1
                     /\ emitted'[1].type = "ATTRIBUTE"
                     /\ emitted'[1].key = last'.key
                     /\ emitted'[1].value = last'.value
                     /\ emitted'[1].format = g_format ]_vars

\* An attribute dispatched inside an open document and an open scope.
C16_Witness ==
  /\ last.op = "keyval" /\ last.key = "Magic" /\ last.value = "MZ" /\ fatals = 0
  /\ g_is_document_open /\ g_scope_stack # <<>>
  /\ Len(emitted) = 1 /\ emitted[1].type = "ATTRIBUTE" /\ emitted[1].format = g_format

\* C17: unregister(d) removes exactly one entry, the first in collection
\* order whose format has d.id, and keeps every other entry in place; with no
\* such entry the registry is unchanged. The active format, the document
\* flag and the scope stack are never changed.
C17_UnregisterFrame ==
  [][ last'.op = "unregister" =>
        LET id == FormatId(last'.fmt)
            hits == {i \in DOMAIN g_registered_formats :
                       FormatId(g_registered_formats[i]) = id}
        IN /\ UNCHANGED <<g_format, g_is_document_open, g_scope_stack>>
           /\ IF hits = {}
                THEN g_registered_formats' = g_registered_formats
                ELSE /\ Len(g_registered_formats') = Len(g_registered_formats) - 1
                     /\ \A i \in DOMAIN g_registered_formats' :
                          g_registered_formats'[i] =
                            g_registered_formats[IF i < Least(hits) THEN i ELSE i + 1] ]_vars

\* One of two entries with the same id removed, the bound format being the
\* one unregistered.
C17_Witness ==
  /\ last.op = "unregister" /\ last.fmt = 1
  /\ g_registered_formats = <<3>> /\ g_format = 1

\* The formats the registry lists.
Registered(reg) == {reg[i] : i \in DOMAIN reg}

\* C20: the active format is unset or a descriptor in the registry, and every
\* event dispatched went to a descriptor in the registry.
C20_ActiveFormatRegistered ==
  /\ g_format = NULL \/ g_format \in Registered(g_registered_formats)
  /\ \A i \in DOMAIN emitted : emitted[i].format \in Registered(g_registered_formats)

\* The number of positions of str holding a character of S.
CountIn(str, S) == Cardinality({i \in DOMAIN str : str[i] \in S})

\* C14: escape_csv(NULL) is NULL; any other result starts and ends with a
\* double quote exactly when the input holds a newline, a double quote or a
\* comma, and then encloses the input with each newline and each double quote
\* grown to two characters; an input with none of the three comes back as is.
C14_EscapeCsv ==
  pure.fn = "escape_csv" /\ pure.done =>
    IF pure.str = NULLCHARS THEN pure.out = NULLCHARS
    ELSE LET str == pure.str
             out == pure.out
             special == CountIn(str, {"\n", "\"", ","}) > 0
             wrapped == Len(out) >= 2 /\ out[1] = "\"" /\ out[Len(out)] = "\""
         IN /\ out # NULLCHARS
            /\ wrapped <=> special
            /\ ~special => out = str
            /\ special => /\ Len(out) = Len(str) + CountIn(str, {"\n", "\""}) + 2
                          /\ CountIn(out, {"\n"}) = 0
                          /\ CountIn(out, {","}) = CountIn(str, {","})
                          /\ CountIn(out, {"a"}) = CountIn(str, {"a"})

\* C14, the part that holds: the same for the strings without the byte 255,
\* the only byte the entity table has no element for.
C14_EscapeCsvBelowByte255 ==
  pure.fn = "escape_csv" /\ pure.done /\ CountIn(pure.str, {BYTE_FF}) = 0 =>
    IF pure.str = NULLCHARS THEN pure.out = NULLCHARS
    ELSE LET str == pure.str
             out == pure.out
             special == CountIn(str, {"\n", "\"", ","}) > 0
             wrapped == Len(out) >= 2 /\ out[1] = "\"" /\ out[Len(out)] = "\""
         IN /\ out # NULLCHARS
            /\ wrapped <=> special
            /\ ~special => out = str
            /\ special => /\ Len(out) = Len(str) + CountIn(str, {"\n", "\""}) + 2
                          /\ CountIn(out, {"\n"}) = 0
                          /\ CountIn(out, {","}) = CountIn(str, {","})
                          /\ CountIn(out, {"a"}) = CountIn(str, {"a"})

\* "a,a" comes back as "\"a,a\"": quoted because of the comma alone.
C14_Witness ==
  /\ pure.fn = "escape_csv" /\ pure.done
  /\ pure.str = <<"a", ",", "a">>
  /\ pure.out = <<"\"", "a", ",", "a", "\"">>

\* The calls of the end-to-end example, as <<function, key, value>>.
HeaderScript ==
  << <<"open_document", NULLSTR, NULLSTR>>,
     <<"open_scope", "Header", NULLSTR>>,
     <<"keyval", "Magic", "MZ">>,
     <<"close_scope", NULLSTR, NULLSTR>>,
     <<"close_document", NULLSTR, NULLSTR>> >>

\* The bytes on stdout after each call of the example.
HeaderOutput ==
  << <<>>,
     <<"\n", "H", "e", "a", "d", "e", "r", "\n">>,
     <<"\n", "H", "e", "a", "d", "e", "r", "\n",
       "M", "a", "g", "i", "c", ",", "M", "Z", "\n">>,
     <<"\n", "H", "e", "a", "d", "e", "r", "\n",
       "M", "a", "g", "i", "c", ",", "M", "Z", "\n", "\n">>,
     <<"\n", "H", "e", "a", "d", "e", "r", "\n",
       "M", "a", "g", "i", "c", ",", "M", "Z", "\n", "\n">> >>

\* The calls made so far are the first k calls of the example.
FollowsHeaderScript(k) ==
  /\ Len(calls) = k
  /\ \A i \in 1..k :
       <<calls[i].op, calls[i].key, calls[i].value>> = HeaderScript[i]

\* C15: with CSV active, open document, open scope "Header", attribute
\* ("Magic", "MZ"), close scope, close document print exactly an empty line
\* and the line Header (scope open), the line Magic,MZ (attribute) and an
\* empty line (scope close); document open and close print nothing, and no
\* call of the sequence aborts, unless the push of "Header" fails, and none
\* ends in an invalid memory access.
C15_HeaderExample ==
  \A k \in 1..Len(HeaderScript) :
    FollowsHeaderScript(k) =>
      /\ stdout = HeaderOutput[k]
      /\ phase = "running"
      /\ fatals = 0 \/ (k = 2 /\ last.ret < 0 /\ fatals = 1)

\* The whole example has run.
C15_Witness ==
  /\ FollowsHeaderScript(5) /\ fatals = 0
  /\ ~g_is_document_open /\ g_scope_stack = <<>>
  /\ Len(stdout) = 18

RECURSIVE Joined(_, _)
\* The strings with one delimiter between consecutive ones, none at the end.
Joined(strs, delimiter) ==
  IF strs = <<>> THEN <<>>
  ELSE IF Len(strs) = 1 THEN strs[1]
  ELSE strs[1] \o <<delimiter>> \o Joined(Tail(strs), delimiter)

RECURSIVE SumLen(_)
SumLen(strs) == IF strs = <<>> THEN 0 ELSE Len(Head(strs)) + SumLen(Tail(strs))

\* C18: str_array_join returns the first count strings with one delimiter
\* between consecutive strings and none at the end (sum of the lengths +
\* count - 1 characters), and the empty string for a null array, a null
\* first element or count 0.
C18_StrArrayJoin ==
  pure.fn = "str_array_join" /\ pure.done =>
    IF pure.strings_null \/ pure.arr = <<>> \/ pure.count = 0
      THEN pure.out = StringResult(<<>>)
      ELSE LET strs == SubSeq(pure.arr, 1, pure.count)
           IN /\ pure.out = StringResult(Joined(strs, pure.delimiter))
              /\ Len(pure.out.value) = SumLen(strs) + pure.count - 1

\* C18, the part that holds: the same without the case count = 0 of an array
\* whose first element is a string.
C18_JoinOfOneOrMore ==
  pure.fn = "str_array_join" /\ pure.done =>
    IF pure.strings_null \/ pure.arr = <<>>
      THEN pure.out = StringResult(<<>>)
      ELSE pure.count > 0 =>
             LET strs == SubSeq(pure.arr, 1, pure.count)
             IN /\ pure.out = StringResult(Joined(strs, pure.delimiter))
                /\ Len(pure.out.value) = SumLen(strs) + pure.count - 1

\* The names of the registered formats, in the order of the registry.
RegisteredNames(reg) == [i \in 1..Len(reg) |-> CStr(FormatName(reg[i]))]

\* C12: for a registry holding names and a buffer with room for them,
\* output_available_formats leaves in the buffer every registered name once,
\* in registry order, with the separator between consecutive names and none
\* after the last, and returns the number of registered formats.
C12_AvailableFormats ==
  LET listed == Joined(RegisteredNames(g_registered_formats), pure.separator)
  IN pure.fn = "output_available_formats" /\ pure.done
     /\ g_registered_formats # <<>> /\ pure.size >= Len(listed) + 1 =>
       /\ CStringOf(pure.out.buffer, pure.size) = listed
       /\ pure.out.ret = Len(g_registered_formats)

\* C12, the part that holds: the same for a buffer with at least one byte
\* more than the names, the separators and the terminator take; and the number
\* of registered formats is returned whatever the size.
C12_AvailableFormatsWithSpareByte ==
  LET listed == Joined(RegisteredNames(g_registered_formats), pure.separator)
  IN pure.fn = "output_available_formats" /\ pure.done =>
       /\ pure.out.ret = Len(g_registered_formats)
       /\ g_registered_formats # <<>> /\ pure.size >= Len(listed) + 2 =>
            CStringOf(pure.out.buffer, pure.size) = listed

\* C19: output_available_formats writes only at indices 0..size-1 of the
\* buffer, for every registry, the empty one included, and every size >= 1.
C19_WritesInsideBuffer ==
  pure.fn = "output_available_formats" /\ pure.done =>
    pure.out.writes \subseteq 0..(pure.size - 1)

\* C19, the part that holds: the writes stay inside a buffer that has room
\* for the names of a registry that is not empty.
C19_WritesInsideWhenNamesFit ==
  LET listed == Joined(RegisteredNames(g_registered_formats), pure.separator)
  IN pure.fn = "output_available_formats" /\ pure.done
     /\ g_registered_formats # <<>> /\ pure.size >= Len(listed) =>
       pure.out.writes \subseteq 0..(pure.size - 1)

====
